---- MODULE Spec2Model ----
(***************************************************************************)
(* Model of src/app.py: the line-oriented metadata extractors              *)
(* (find_abstract, find_keywords, find_authors), the record assembler      *)
(* parse_file and the batch loop over the uploaded files.                  *)
(*                                                                         *)
(* A Python str is a sequence of characters; a character is a one-letter   *)
(* TLA+ string, except U+2013 and U+2014, which the TLA+ lexer does not    *)
(* take inside a string literal and which are the named characters EnDash  *)
(* and EmDash.  Every regular expression of the source is an operator on   *)
(* character sequences that follows the backtracking order of Python's re. *)
(***************************************************************************)
EXTENDS Naturals, Sequences, FiniteSets

VARIABLES uploaded_files, idx, results, df, pc

vars == <<uploaded_files, idx, results, df, pc>>

----------------------------------------------------------------------------
(* Characters and character classes                                        *)

EnDash == "U+2013"

EmDash == "U+2014"

UpperLetters ==
  <<"A", "B", "C", "D", "E", "F", "G", "H", "I", "J", "K", "L", "M",
    "N", "O", "P", "Q", "R", "S", "T", "U", "V", "W", "X", "Y", "Z">>

LowerLetters ==
  <<"a", "b", "c", "d", "e", "f", "g", "h", "i", "j", "k", "l", "m",
    "n", "o", "p", "q", "r", "s", "t", "u", "v", "w", "x", "y", "z">>

Digits == {"0", "1", "2", "3", "4", "5", "6", "7", "8", "9"}

UpperSet == {UpperLetters[i] : i \in DOMAIN UpperLetters}

LowerSet == {LowerLetters[i] : i \in DOMAIN LowerLetters}

\* \s of re on the characters of the model's alphabet
SpaceChars == {" ", "\t", "\n"}

IsSpace(c) == c \in SpaceChars

\* \w of re: the characters between which \b finds no boundary
WordChars == UpperSet \cup LowerSet \cup Digits \cup {"_"}

IsWordChar(c) == c \in WordChars

\* the character class [:\-\u2013\u2014] of the header patterns
DashChars == {":", "-", EnDash, EmDash}

LowerOf ==
  [c \in UpperSet |->
     LowerLetters[CHOOSE i \in DOMAIN UpperLetters : UpperLetters[i] = c]]

UpperOf ==
  [c \in LowerSet |->
     UpperLetters[CHOOSE i \in DOMAIN LowerLetters : LowerLetters[i] = c]]

\* str.lower() on one character
LowerChar(c) == IF c \in UpperSet THEN LowerOf[c] ELSE c

\* str.upper() on one character
UpperChar(c) == IF c \in LowerSet THEN UpperOf[c] ELSE c

\* s.lower()
Lower(s) == [i \in DOMAIN s |-> LowerChar(s[i])]

\* s.upper()
Upper(s) == [i \in DOMAIN s |-> UpperChar(s[i])]

----------------------------------------------------------------------------
(* String primitives.  A position p is the index of the next character to  *)
(* read, from 1 to Len(s) + 1.                                             *)

\* the regex literal lit (lower case), read under re.IGNORECASE at position p
MatchLit(s, p, lit) ==
  /\ p + Len(lit) - 1 <= Len(s)
  /\ \A i \in DOMAIN lit : LowerChar(s[p + i - 1]) = lit[i]

\* the literal lit read case-sensitively at position p (the `in` of str)
MatchExact(s, p, lit) ==
  /\ p + Len(lit) - 1 <= Len(s)
  /\ \A i \in DOMAIN lit : s[p + i - 1] = lit[i]

\* sub in s
Contains(s, sub) == \E p \in 1..(Len(s) + 1) : MatchExact(s, p, sub)

WordAt(s, p) == p >= 1 /\ p <= Len(s) /\ IsWordChar(s[p])

\* \b between s[p-1] and s[p]
WordBoundary(s, p) == WordAt(s, p - 1) # WordAt(s, p)

\* the first position at or after p, up to Len(s) + 1, whose character is not
\* in chars: a greedy run of the class chars read from p
SkipRun(s, p, chars) ==
  IF p > Len(s) THEN p
  ELSE CHOOSE q \in p..(Len(s) + 1) :
         /\ q = Len(s) + 1 \/ s[q] \notin chars
         /\ \A r \in p..(q - 1) : s[r] \in chars

\* \s* read greedily from p
SkipSpaces(s, p) == SkipRun(s, p, SpaceChars)

\* [a-z]* read greedily from p
SkipLower(s, p) == SkipRun(s, p, LowerSet)

\* s.strip(chars)
StripChars(s, chars) ==
  LET keep == {i \in DOMAIN s : s[i] \notin chars}
      lo == CHOOSE i \in keep : \A k \in keep : i <= k
      hi == CHOOSE i \in keep : \A k \in keep : i >= k
  IN  IF keep = {} THEN <<>> ELSE SubSeq(s, lo, hi)

\* s.strip()
Strip(s) == StripChars(s, SpaceChars)

\* re.sub(r"\s+", " ", s): of every run of whitespace the first character
\* stays, as a space
CollapseSpaces(s) ==
  LET kept == SelectSeq([i \in DOMAIN s |-> i],
                        LAMBDA i : ~IsSpace(s[i]) \/ i = 1 \/ ~IsSpace(s[i - 1]))
  IN  [k \in DOMAIN kept |-> IF IsSpace(s[kept[k]]) THEN " " ELSE s[kept[k]]]

clean_line(s) == Strip(CollapseSpaces(s))

RECURSIVE Join(_, _)
\* sep.join(parts)
Join(parts, sep) ==
  IF parts = <<>> THEN <<>>
  ELSE IF Len(parts) = 1 THEN parts[1]
       ELSE parts[1] \o sep \o Join(Tail(parts), sep)

\* the pieces of s between its characters of seps, one more than there are
\* such characters: re.split of a character class, str.split of one
\* character, and the split at line breaks
SplitAt(s, seps) ==
  LET cuts == SelectSeq([i \in DOMAIN s |-> i], LAMBDA i : s[i] \in seps)
      from(k) == IF k = 1 THEN 1 ELSE cuts[k - 1] + 1
      to(k) == IF k = Len(cuts) + 1 THEN Len(s) ELSE cuts[k] - 1
  IN  [k \in 1..(Len(cuts) + 1) |-> SubSeq(s, from(k), to(k))]

\* text.splitlines(): the line break of the alphabet is "\n", and a final
\* line break opens no further line
splitlines(text) ==
  LET parts == SplitAt(text, {"\n"})
  IN  IF parts[Len(parts)] = <<>> THEN SubSeq(parts, 1, Len(parts) - 1)
      ELSE parts

RECURSIVE SplitStr(_, _, _)
\* s.split(sep) for a separator of several characters
SplitStr(s, sep, cur) ==
  IF s = <<>> THEN <<cur>>
  ELSE IF MatchExact(s, 1, sep)
       THEN <<cur>> \o SplitStr(SubSeq(s, Len(sep) + 1, Len(s)), sep, <<>>)
       ELSE SplitStr(Tail(s), sep, Append(cur, Head(s)))

\* len(re.sub(r"\s+", "", text))
NonSpaceCount(s) == Cardinality({i \in DOMAIN s : ~IsSpace(s[i])})

----------------------------------------------------------------------------
(* The section pattern set, src/app.py lines 31-36                         *)

NoMatch == [matched |-> FALSE, group |-> <<>>]

Match(g) == [matched |-> TRUE, group |-> g]

\* (keywords?|index\s*terms?)\b read at p under re.IGNORECASE: the position
\* after the match, or 0.  The optional s is tried first, and without it the
\* boundary fails before an s, so at most one reading succeeds.
KeywordMarkerEnd(s, p) ==
  LET OptS(q) == IF q <= Len(s) /\ LowerChar(s[q]) = "s" /\ WordBoundary(s, q + 1)
                 THEN q + 1
                 ELSE IF WordBoundary(s, q) THEN q ELSE 0
      t == SkipSpaces(s, p + 5)
  IN  IF MatchLit(s, p, <<"k", "e", "y", "w", "o", "r", "d">>) THEN OptS(p + 7)
      ELSE IF /\ MatchLit(s, p, <<"i", "n", "d", "e", "x">>)
              /\ MatchLit(s, t, <<"t", "e", "r", "m">>)
           THEN OptS(t + 4)
           ELSE 0

\* \s*(.+)$ read at q: \s* gives back one character when the rest of the line
\* is all whitespace, and nothing matches at the end of the line
RestGroup(s, q) ==
  LET w == SkipSpaces(s, q)
  IN  IF q > Len(s) THEN NoMatch
      ELSE Match(SubSeq(s, IF w <= Len(s) THEN w ELSE Len(s), Len(s)))

\* ^\s*abstract\b[:\-\u2013\u2014]?\s*$
ABSTRACT_HEAD_PAT(line) ==
  LET p == SkipSpaces(line, 1)
      q == p + 8
      r == IF q <= Len(line) /\ line[q] \in DashChars THEN q + 1 ELSE q
  IN  /\ MatchLit(line, p, <<"a", "b", "s", "t", "r", "a", "c", "t">>)
      /\ WordBoundary(line, q)
      /\ SkipSpaces(line, r) > Len(line)

\* ^\s*abstract\b[:\-\u2013\u2014]?\s*(.+)$ : the match and its group(1).
\* The optional mark is taken first; when nothing is left for (.+) after it,
\* the mark is given back and becomes the group.
ABSTRACT_INLINE_PAT(line) ==
  LET p == SkipSpaces(line, 1)
      q == p + 8
  IN  IF ~(/\ MatchLit(line, p, <<"a", "b", "s", "t", "r", "a", "c", "t">>)
           /\ WordBoundary(line, q))
      THEN NoMatch
      ELSE IF q <= Len(line) /\ line[q] \in DashChars /\ q + 1 <= Len(line)
           THEN RestGroup(line, q + 1)
           ELSE RestGroup(line, q)

\* ^\s*(keywords?|index\s*terms?)\b\s*[:\-\u2013\u2014]?\s*(.*)$ : the match
\* and its group(2)
KEYWORDS_PAT(line) ==
  LET p  == SkipSpaces(line, 1)
      e  == KeywordMarkerEnd(line, p)
      q1 == SkipSpaces(line, e)
      q2 == IF q1 <= Len(line) /\ line[q1] \in DashChars THEN q1 + 1 ELSE q1
      q3 == SkipSpaces(line, q2)
  IN  IF e = 0 THEN NoMatch ELSE Match(SubSeq(line, q3, Len(line)))

\* 1[\.\s] or I[\.\s] and then \b, read at p under re.IGNORECASE
NumberedMarker(s, p, c) ==
  /\ p + 1 <= Len(s)
  /\ LowerChar(s[p]) = c
  /\ (s[p + 1] = "." \/ IsSpace(s[p + 1]))
  /\ WordBoundary(s, p + 2)

\* ^\s*(keywords?|index\s*terms?|introduction|background|1[\.\s]|I[\.\s])\b
NEXT_SECTION_PAT(line) ==
  LET p == SkipSpaces(line, 1)
      Word(lit) == MatchLit(line, p, lit) /\ WordBoundary(line, p + Len(lit))
  IN  \/ KeywordMarkerEnd(line, p) # 0
      \/ Word(<<"i", "n", "t", "r", "o", "d", "u", "c", "t", "i", "o", "n">>)
      \/ Word(<<"b", "a", "c", "k", "g", "r", "o", "u", "n", "d">>)
      \/ NumberedMarker(line, p, "1")
      \/ NumberedMarker(line, p, "i")

\* \b[A-Z0-9._%+-]+@[A-Z0-9.-]+\.[A-Z]{2,}\b searched in s under
\* re.IGNORECASE: a is where the local part starts, at the "@", d the last
\* character of the domain before its final period, e the last letter
EMAIL_PAT(s) ==
  LET Letter(c) == c \in LowerSet \/ c \in UpperSet
      Alnum(c)  == Letter(c) \/ c \in Digits
      Local(c)  == Alnum(c) \/ c \in {".", "_", "%", "+", "-"}
      Domain(c) == Alnum(c) \/ c \in {".", "-"}
  IN  \E at \in DOMAIN s :
        /\ s[at] = "@"
        /\ \E a \in 1..(at - 1) :
             /\ WordBoundary(s, a)
             /\ \A i \in a..(at - 1) : Local(s[i])
        /\ \E d \in (at + 1)..Len(s) : \E e \in (d + 3)..Len(s) :
             /\ \A i \in (at + 1)..d : Domain(s[i])
             /\ s[d + 1] = "."
             /\ \A i \in (d + 2)..e : Letter(s[i])
             /\ WordBoundary(s, e + 1)

\* the affiliation words of line 93, in the order of the alternation
AffiliationWords ==
  << <<"u", "n", "i", "v", "e", "r", "s", "i", "t", "y">>,
     <<"d", "e", "p", "a", "r", "t", "m", "e", "n", "t">>,
     <<"d", "e", "p", "t", ".">>,
     <<"d", "e", "p", "t">>,
     <<"i", "n", "s", "t", "i", "t", "u", "t", "e">>,
     <<"l", "a", "b", "o", "r", "a", "t", "o", "r">>,
     <<"s", "c", "h", "o", "o", "l">>,
     <<"c", "o", "l", "l", "e", "g", "e">>,
     <<"c", "e", "n", "t", "e", "r">>,
     <<"c", "e", "n", "t", "r", "e">> >>

\* re.search(r"\b(university|department|dept\.?|institute|laborator|school|
\* college|center|centre)\b", s, re.IGNORECASE)
AFFILIATION_PAT(s) ==
  \E p \in DOMAIN s :
    /\ WordBoundary(s, p)
    /\ \E k \in DOMAIN AffiliationWords :
         /\ MatchLit(s, p, AffiliationWords[k])
         /\ WordBoundary(s, p + Len(AffiliationWords[k]))

RECURSIVE NameWords(_, _)
\* (?:\s+[A-Z][a-z]+)+ read greedily at q, followed by \b: the position after
\* the last word that ends at a word boundary, or 0.  A word that does not end
\* at a boundary is given back, and the match then ends where it began.
NameWords(s, q) ==
  LET u == SkipSpaces(s, q)
      e == SkipLower(s, u + 1)
      more == NameWords(s, e)
  IN  IF u > q /\ u <= Len(s) /\ s[u] \in UpperSet /\ e > u + 1
      THEN IF more # 0 THEN more
           ELSE IF WordBoundary(s, e) THEN e ELSE 0
      ELSE 0

\* \b([A-Z][a-z]+(?:\s+[A-Z]\.)?(?:\s+[A-Z][a-z]+)+)\b matched at p: the
\* position after the match, or 0
NameEnd(s, p) ==
  LET q == SkipLower(s, p + 1)
      u == SkipSpaces(s, q)
      initial == u > q /\ u + 1 <= Len(s) /\ s[u] \in UpperSet /\ s[u + 1] = "."
      withInitial == IF initial THEN NameWords(s, u + 2) ELSE 0
  IN  IF s[p] \in UpperSet /\ WordBoundary(s, p) /\ q > p + 1
      THEN IF withInitial # 0 THEN withInitial ELSE NameWords(s, q)
      ELSE 0

RECURSIVE FindAllNames(_, _)
\* NAME_PAT.findall(ln) from position p on: the matches from left to right,
\* each searched from the end of the one before
FindAllNames(s, p) ==
  LET starts == {q \in p..Len(s) : NameEnd(s, q) # 0}
      q == CHOOSE a \in starts : \A b \in starts : a <= b
  IN  IF starts = {} THEN <<>>
      ELSE <<SubSeq(s, q, NameEnd(s, q) - 1)>> \o FindAllNames(s, NameEnd(s, q))

NAME_PAT(ln) == FindAllNames(ln, 1)

----------------------------------------------------------------------------
(* The extractors, src/app.py lines 38-109                                 *)

\* IsStopLine as it would be with the blank-line test forgotten
IsStopLine_NoBlank(nxt) == NEXT_SECTION_PAT(nxt)

\* the test that ends both accumulation loops (lines 47, 56 and 73)
IsStopLine(nxt) == Strip(nxt) = <<>> \/ NEXT_SECTION_PAT(nxt)

RECURSIVE Accumulate(_, _)
\* the while loop from line j: the cleaned lines up to the first stop line or
\* the end of the text
Accumulate(lines, j) ==
  IF j > Len(lines) \/ IsStopLine(lines[j]) THEN <<>>
  ELSE <<clean_line(lines[j])>> \o Accumulate(lines, j + 1)

\* re.split(r"\b(keywords?|index\s*terms?)\b[:\-\u2013\u2014]?", s,
\* flags=re.IGNORECASE)[0]: s up to the leftmost match, all of s without one
BeforeKeywordsMarker(s) ==
  LET hits == {p \in DOMAIN s : WordBoundary(s, p) /\ KeywordMarkerEnd(s, p) # 0}
      first == CHOOSE p \in hits : \A r \in hits : p <= r
  IN  IF hits = {} THEN s ELSE SubSeq(s, 1, first - 1)

\* the for loop of find_abstract reaches its break at the first line that
\* matches the inline or the head pattern: its index, or 0
AbstractHeaderIndex(lines) ==
  LET hits == {i \in DOMAIN lines :
                 ABSTRACT_INLINE_PAT(lines[i]).matched \/ ABSTRACT_HEAD_PAT(lines[i])}
  IN  IF hits = {} THEN 0 ELSE CHOOSE i \in hits : \A k \in hits : i <= k

find_abstract(text) ==
  LET lines == splitlines(text)
      i == AbstractHeaderIndex(lines)
      m == ABSTRACT_INLINE_PAT(lines[i])
      abstract_lines ==
        IF i = 0 THEN <<>>
        ELSE IF m.matched
             THEN <<clean_line(m.group)>> \o Accumulate(lines, i + 1)
             ELSE Accumulate(lines, i + 1)
      abstract == Strip(Join(abstract_lines, <<" ">>))
  IN  Strip(BeforeKeywordsMarker(abstract))

\* the first line that matches KEYWORDS_PAT: its index, or 0
KeywordsHeaderIndex(lines) ==
  LET hits == {i \in DOMAIN lines : KEYWORDS_PAT(lines[i]).matched}
  IN  IF hits = {} THEN 0 ELSE CHOOSE i \in hits : \A k \in hits : i <= k

\* [p.strip(" .;") for p in re.split(r"[;,]", kws) if p.strip(" .;")]
KeywordParts(kws) ==
  LET pieces == SplitAt(kws, {";", ","})
      term(k) == StripChars(pieces[k], {" ", ".", ";"})
      kept == SelectSeq([k \in DOMAIN pieces |-> k], LAMBDA k : term(k) # <<>>)
  IN  [n \in DOMAIN kept |-> term(kept[n])]

find_keywords(text) ==
  LET lines == splitlines(text)
      i == KeywordsHeaderIndex(lines)
      collected == <<clean_line(KEYWORDS_PAT(lines[i]).group)>>
                     \o Accumulate(lines, i + 1)
      kws == StripChars(Strip(Join(collected, <<" ">>)), {";"})
  IN  IF i = 0 THEN <<>> ELSE Join(KeywordParts(kws), <<",", " ">>)

\* the lines of the document that find_authors reads (line 83)
AuthorScope == 40

\* the number of filtered lines that find_authors examines (line 97)
AuthorLines == 8

\* the continue tests of lines 87-94 on a cleaned line: TRUE when it is kept
KeepLine(s) ==
  /\ s # <<>>
  /\ ~EMAIL_PAT(s)
  /\ ~Contains(Lower(s), <<"h", "t", "t", "p">>)
  /\ ~Contains(Lower(s), <<"d", "o", "i">>)
  /\ ~(Len(s) > 6 /\ Upper(s) = s)
  /\ ~AFFILIATION_PAT(s)

\* the list filtered of lines 84-95
FilteredLines(text) ==
  LET all == splitlines(text)
      scope == SubSeq(all, 1, IF Len(all) < AuthorScope THEN Len(all) ELSE AuthorScope)
      cleaned == [k \in DOMAIN scope |-> clean_line(scope[k])]
  IN  SelectSeq(cleaned, KeepLine)

\* the test of line 99 on a filtered line and its name matches
Accepted(ln, names) ==
  \/ Len(names) >= 2
  \/ /\ Len(names) = 1
     /\ (Contains(ln, <<",">>) \/ Contains(Lower(ln), <<" ", "a", "n", "d", " ">>))

\* Dedup as it would be with the seen test forgotten: every match is kept
Dedup_KeepAll(names, seen) == [i \in DOMAIN names |-> Strip(names[i])]

RECURSIVE Dedup(_, _)
\* lines 100-106: the names not seen before, in the order they are met
Dedup(names, seen) ==
  IF names = <<>> THEN <<>>
  ELSE LET nn == Strip(Head(names))
       IN  IF nn \in seen THEN Dedup(Tail(names), seen)
           ELSE <<nn>> \o Dedup(Tail(names), seen \cup {nn})

find_authors(text) ==
  LET filtered == FilteredLines(text)
      head == SubSeq(filtered, 1,
                     IF Len(filtered) < AuthorLines THEN Len(filtered) ELSE AuthorLines)
      hits == {k \in DOMAIN head : Accepted(head[k], NAME_PAT(head[k]))}
      first == CHOOSE k \in hits : \A r \in hits : k <= r
  IN  IF hits = {} THEN <<>>
      ELSE Join(Dedup(NAME_PAT(head[first]), {}), <<",", " ">>)

----------------------------------------------------------------------------
(* Text extraction and the record assembler, src/app.py lines 14-26 and    *)
(* 111-125.  An uploaded file is its name, the format its bytes really     *)
(* have ("pdf", "docx", or "corrupt" for bytes no library opens) and the   *)
(* texts of its pages or paragraphs.                                       *)

\* pdfplumber.open raises on anything but a PDF, and the bare except answers ""
extract_text_from_pdf(file) ==
  IF file.format = "pdf" THEN Join(file.chunks, <<"\n">>) ELSE <<>>

\* docx.Document raises on anything but a Word file, and the bare except
\* answers ""
extract_text_from_docx(file) ==
  IF file.format = "docx" THEN Join(file.chunks, <<"\n">>) ELSE <<>>

\* filename.split(".")[-1].lower()
Ext(filename) ==
  LET parts == SplitAt(filename, {"."}) IN Lower(parts[Len(parts)])

PdfExt == <<"p", "d", "f">>

DocxExt == <<"d", "o", "c", "x">>

\* the number of non-whitespace characters below which a PDF is noted as
\* scanned (line 123)
ScanThreshold == 200

UnsupportedNote == "Unsupported file type"

ScannedNote == "Possible scanned/non-searchable PDF."

\* parse_file as it would be with the ext == "pdf" test of line 123 forgotten
parse_file_NoteAnyType(file, filename) ==
  LET ext  == Ext(filename)
      text == IF ext = PdfExt THEN extract_text_from_pdf(file)
              ELSE extract_text_from_docx(file)
  IN  IF ext # PdfExt /\ ext # DocxExt
      THEN [filename |-> filename, authors |-> <<>>, abstract |-> <<>>,
            keywords |-> <<>>, notes |-> UnsupportedNote]
      ELSE [filename |-> filename,
            authors  |-> find_authors(text),
            abstract |-> find_abstract(text),
            keywords |-> find_keywords(text),
            notes    |-> IF NonSpaceCount(text) < ScanThreshold
                         THEN ScannedNote ELSE ""]

parse_file(file, filename) ==
  LET ext  == Ext(filename)
      text == IF ext = PdfExt THEN extract_text_from_pdf(file)
              ELSE extract_text_from_docx(file)
  IN  IF ext # PdfExt /\ ext # DocxExt
      THEN [filename |-> filename, authors |-> <<>>, abstract |-> <<>>,
            keywords |-> <<>>, notes |-> UnsupportedNote]
      ELSE [filename |-> filename,
            authors  |-> find_authors(text),
            abstract |-> find_abstract(text),
            keywords |-> find_keywords(text),
            notes    |-> IF ext = PdfExt /\ NonSpaceCount(text) < ScanThreshold
                         THEN ScannedNote ELSE ""]

----------------------------------------------------------------------------
(* The inputs of a run: the batch the user uploads                         *)

\* the longest document, in lines, of the two families of one-file batches
MaxLines == 3

\* the longest batch of several files
MaxFiles == 2

SeqsUpTo(S, n) == UNION {[1..k -> S] : k \in 0..n}

SectionLines ==
  {
    \* a bare header
    <<"A", "b", "s", "t", "r", "a", "c", "t">>,
    \* a bare header with its colon
    <<"A", "b", "s", "t", "r", "a", "c", "t", ":">>,
    \* an inline header whose text repeats the word
    <<"A", "b", "s", "t", "r", "a", "c", "t", ":", " ", "A", "b", "s", "t", "r", "a", "c", "t", " ", "o", "f", " ", " ", "n", "e", "t", "s">>,
    \* an inline header, a keywords marker glued to the text
    <<"A", "B", "S", "T", "R", "A", "C", "T", EmDash, "W", "e", " ", "s", "t", "u", "d", "y", "\t", "g", "r", "a", "p", "h", "s", ".", " ", "K", "e", "y", "w", "o", "r", "d", "s", ":", " ", "n", "e", "t", "s">>,
    \* an empty line
    <<>>,
    \* a whitespace-only line
    <<" ", "\t">>,
    \* a line of text
    <<" ", "d", "e", "e", "p", " ", " ", "n", "e", "t", "s", ";", " ">>,
    \* a numbered heading, period and space
    <<"1", ".", " ", "I", "n", "t", "r", "o", "d", "u", "c", "t", "i", "o", "n">>,
    \* a numbered heading, space
    <<"1", " ", "I", "n", "t", "r", "o", "d", "u", "c", "t", "i", "o", "n">>,
    \* a keywords header with a repeated term
    <<"K", "e", "y", "w", "o", "r", "d", "s", ":", " ", "n", "e", "t", "s", ";", " ", "g", "r", "a", "p", "h", "s", ",", " ", "n", "e", "t", "s", ".">>
  }

FrontMatterLines ==
  {
    \* two names
    <<"J", "o", "h", "n", " ", "A", ".", " ", "S", "m", "i", "t", "h", ",", " ", "M", "a", "r", "i", "a", " ", "L", "o", "p", "e", "z">>,
    \* one name twice, no comma
    <<"A", "n", "n", " ", "L", "e", "e", ";", " ", "A", "n", "n", " ", "L", "e", "e">>,
    \* a repeated name among two
    <<"B", "o", " ", "C", "h", "e", "n", ",", " ", "A", "n", "n", " ", "L", "e", "e", ",", " ", "B", "o", " ", "C", "h", "e", "n">>,
    \* a word on the stem laborator
    <<"B", "e", "l", "l", " ", "L", "a", "b", "o", "r", "a", "t", "o", "r", "y", ",", " ", "A", "n", "n", " ", "L", "e", "e">>,
    \* an affiliation line
    <<"D", "e", "p", "t", ".", " ", "o", "f", " ", "P", "h", "y", "s", "i", "c", "s", ",", " ", "A", "n", "n", " ", "L", "e", "e">>,
    \* one name alone
    <<"A", "n", "n", " ", "L", "e", "e">>,
    \* one name and the word and
    <<"A", "n", "n", " ", "L", "e", "e", " ", "a", "n", "d", " ", "o", "t", "h", "e", "r", "s">>,
    \* a contact line
    <<"a", ".", "l", "e", "e", "@", "x", ".", "o", "r", "g", " ", "A", "n", "n", " ", "L", "e", "e", ",", " ", "B", "o", " ", "C", "h", "e", "n">>,
    \* an empty line
    <<>>
  }

\* a title line: the filter keeps it and it holds no name
TitleLine == <<"D", "e", "e", "p", " ", "n", "e", "t", "s">>

\* documents whose last line sits at the edge of a window of find_authors:
\* the last examined line and the first unexamined one, the last line in
\* scope and the first out of scope
PaddedDocs ==
  {[i \in 1..n |-> TitleLine] \o <<ln>> :
     n \in {AuthorLines - 1, AuthorLines}, ln \in FrontMatterLines}
  \cup
  {[i \in 1..n |-> <<>>] \o <<ln>> :
     n \in {AuthorScope - 1, AuthorScope}, ln \in FrontMatterLines}

SectionFiles ==
  {[name |-> <<"a", ".", "p", "d", "f">>, format |-> "pdf", chunks |-> d] :
     d \in SeqsUpTo(SectionLines, MaxLines)}

FrontMatterFiles ==
  {[name |-> <<"c", ".", "d", "o", "c", "x">>, format |-> "docx", chunks |-> d] :
     d \in SeqsUpTo(FrontMatterLines, MaxLines) \cup PaddedDocs}

FileNames ==
  { <<"a", ".", "p", "d", "f">>,
    <<"b", ".", "v", "2", ".", "P", "D", "F">>,
    <<"c", ".", "d", "o", "c", "x">>,
    <<"d", ".", "t", "x", "t">> }

\* a page of n letters
Page(n) == [i \in 1..n |-> "x"]

\* what the files of a longer batch hold: text at the threshold of line 123
\* and one character below it, a short paper, nothing, unreadable bytes
Containers ==
  { [format |-> "pdf",  chunks |-> <<Page(ScanThreshold)>>],
    [format |-> "pdf",  chunks |-> <<Page(ScanThreshold - 1), <<" ", " ">> >>],
    [format |-> "docx",
     chunks |-> << <<"A", "n", "n", " ", "L", "e", "e", ",", " ", "B", "o", " ", "C", "h", "e", "n">>,
                   <<"A", "b", "s", "t", "r", "a", "c", "t", ":", " ", "n", "e", "t", "s">> >>],
    [format |-> "pdf",  chunks |-> <<>>],
    [format |-> "corrupt", chunks |-> <<>>] }

BatchFiles ==
  {[name |-> n, format |-> c.format, chunks |-> c.chunks] :
     n \in FileNames, c \in Containers}

Batches ==
  {<<f>> : f \in SectionFiles \cup FrontMatterFiles}
  \cup SeqsUpTo(BatchFiles, MaxFiles)

----------------------------------------------------------------------------
(* One run of the script, src/app.py lines 129-139                         *)

Init ==
  /\ uploaded_files \in Batches
  /\ idx = 0
  /\ results = <<>>
  /\ df = <<>>
  /\ pc = "start"

\* line 133 with no file uploaded: nothing is parsed and nothing is shown
NoUpload ==
  /\ pc = "start"
  /\ uploaded_files = <<>>
  /\ pc' = "done"
  /\ UNCHANGED <<uploaded_files, idx, results, df>>

\* lines 133-134
StartBatch ==
  /\ pc = "start"
  /\ uploaded_files # <<>>
  /\ results' = <<>>
  /\ pc' = "loop"
  /\ UNCHANGED <<uploaded_files, idx, df>>

\* ParseNext as it would be if a file of an unsupported type were passed
\* over without a record
ParseNext_SkipsUnsupported ==
  /\ pc = "loop"
  /\ idx < Len(uploaded_files)
  /\ LET file == uploaded_files[idx + 1]
         data == parse_file(file, file.name)
     IN  results' = IF data.notes = UnsupportedNote THEN results
                    ELSE Append(results, data)
  /\ idx' = idx + 1
  /\ UNCHANGED <<uploaded_files, df, pc>>

\* lines 135-137: one turn of the loop
ParseNext ==
  /\ pc = "loop"
  /\ idx < Len(uploaded_files)
  /\ LET file == uploaded_files[idx + 1]
     IN  results' = Append(results, parse_file(file, file.name))
  /\ idx' = idx + 1
  /\ UNCHANGED <<uploaded_files, df, pc>>

\* lines 138-139: the table of the records
ShowTable ==
  /\ pc = "loop"
  /\ idx = Len(uploaded_files)
  /\ df' = results
  /\ pc' = "done"
  /\ UNCHANGED <<uploaded_files, idx, results>>

Next == NoUpload \/ StartBatch \/ ParseNext \/ ShowTable

Spec == Init /\ [][Next]_vars

----------------------------------------------------------------------------
(* Vocabulary of the properties                                            *)

\* the file of record k was of a type parse_file reads
Supported(k) == Ext(uploaded_files[k].name) \in {PdfExt, DocxExt}

\* the text the extractors were given for record k
TextOf(k) ==
  IF Ext(uploaded_files[k].name) = PdfExt
  THEN extract_text_from_pdf(uploaded_files[k])
  ELSE extract_text_from_docx(uploaded_files[k])

LinesOf(k) == splitlines(TextOf(k))

\* the text made of the first n lines, joined by line breaks
FirstLines(lines, n) == Join(SubSeq(lines, 1, n), <<"\n">>)

IsBlank(line) == \A i \in DOMAIN line : IsSpace(line[i])

\* one of the first n lines is an abstract header, a keywords header
AbstractHeaderIn(lines, n) ==
  \E h \in 1..n : ABSTRACT_INLINE_PAT(lines[h]).matched \/ ABSTRACT_HEAD_PAT(lines[h])

KeywordsHeaderIn(lines, n) == \E h \in 1..n : KEYWORDS_PAT(lines[h]).matched

\* the entries of a ", "-joined field
Entries(field) == IF field = <<>> THEN <<>> ELSE SplitStr(field, <<",", " ">>, <<>>)

NoRepeat(seq) == \A a, b \in DOMAIN seq : a # b => seq[a] # seq[b]

\* where x is first met in seq
FirstAt(seq, x) == CHOOSE i \in DOMAIN seq : seq[i] = x /\ \A j \in 1..(i - 1) : seq[j] # x

\* s begins with the word "abstract", in any letter case
BeginsWithAbstract(s) ==
  /\ MatchLit(s, 1, <<"a", "b", "s", "t", "r", "a", "c", "t">>)
  /\ WordBoundary(s, 9)

----------------------------------------------------------------------------
(* C1: the abstract that find_abstract returns never begins with the       *)
(* marker word "abstract", in any letter case.  The code returns           *)
(* "Abstract of nets" for the line "Abstract: Abstract of  nets" and       *)
(* "Abstract" for a header followed by the line "Abstract".                *)
C1_NoLeadingMarker ==
  \A k \in DOMAIN results : ~BeginsWithAbstract(results[k].abstract)

(* C2: once a header has matched, accumulation stops at the first blank    *)
(* line or next-section marker and nothing at or after it contributes:     *)
(* the abstract and the keywords of a text are those of the text cut       *)
(* before any blank or marker line that follows a header, and those of     *)
(* the text T that ends with a blank line after a header, whatever lines   *)
(* P follow T.                                                             *)
C2_StopsAtBoundary ==
  \A k \in DOMAIN results : Supported(k) =>
    LET lines == LinesOf(k)
    IN  \A n \in DOMAIN lines :
          LET T == FirstLines(lines, n) \o <<"\n">>
              U == FirstLines(lines, n - 1)
              stop == IsBlank(lines[n]) \/ NEXT_SECTION_PAT(lines[n])
          IN  /\ IsBlank(lines[n]) /\ AbstractHeaderIn(lines, n - 1)
                   => results[k].abstract = find_abstract(T)
              /\ IsBlank(lines[n]) /\ KeywordsHeaderIn(lines, n - 1)
                   => results[k].keywords = find_keywords(T)
              /\ stop /\ AbstractHeaderIn(lines, n - 1)
                   => results[k].abstract = find_abstract(U)
              /\ stop /\ KeywordsHeaderIn(lines, n - 1)
                   => results[k].keywords = find_keywords(U)

\* a parsed text with a header, a blank line after it and text after the
\* blank line, whose abstract is not empty
C2_Witness ==
  \E k \in DOMAIN results :
    /\ Supported(k)
    /\ results[k].abstract # <<>>
    /\ \E n \in DOMAIN LinesOf(k) :
         /\ n < Len(LinesOf(k))
         /\ IsBlank(LinesOf(k)[n])
         /\ AbstractHeaderIn(LinesOf(k), n - 1)
         /\ ~IsBlank(LinesOf(k)[n + 1])
         /\ ~NEXT_SECTION_PAT(LinesOf(k)[n + 1])

(* C3: the names that find_authors returns hold no name twice, and they    *)
(* are the name matches of one filtered line in the order in which each    *)
(* is first met on it.                                                     *)
C3_AuthorsDistinctInOrder ==
  \A k \in DOMAIN results :
    LET names == Entries(results[k].authors)
        filtered == FilteredLines(TextOf(k))
    IN  /\ NoRepeat(names)
        /\ names # <<>> =>
             \E j \in DOMAIN filtered :
               LET m == NAME_PAT(filtered[j])
               IN  /\ {names[a] : a \in DOMAIN names} = {m[b] : b \in DOMAIN m}
                   /\ \A a, b \in DOMAIN names :
                        a < b => FirstAt(m, names[a]) < FirstAt(m, names[b])

\* an author line on which a name is matched twice gave two names
C3_Witness ==
  \E k \in DOMAIN results :
    LET names == Entries(results[k].authors)
        filtered == FilteredLines(TextOf(k))
    IN  /\ Len(names) >= 2
        /\ \E j \in DOMAIN filtered :
             /\ Len(NAME_PAT(filtered[j])) > Len(names)
             /\ {names[a] : a \in DOMAIN names}
                  = {NAME_PAT(filtered[j])[b] : b \in DOMAIN NAME_PAT(filtered[j])}

(* C4: the notes of a record are decided by the type and the text alone:   *)
(* "Unsupported file type" exactly for a type that is neither pdf nor      *)
(* docx, and then with the three fields empty; the scanned-PDF note        *)
(* exactly for a pdf whose text has fewer than 200 non-whitespace          *)
(* characters; nothing otherwise.                                          *)
C4_NotesDecidedByTypeAndText ==
  \A k \in DOMAIN results :
    LET r == results[k]
        ext == Ext(uploaded_files[k].name)
        few == Cardinality({i \in DOMAIN TextOf(k) : TextOf(k)[i] \notin SpaceChars}) < 200
    IN  /\ r.notes = UnsupportedNote <=> ext \notin {PdfExt, DocxExt}
        /\ ext \notin {PdfExt, DocxExt}
             => r.authors = <<>> /\ r.abstract = <<>> /\ r.keywords = <<>>
        /\ r.notes = ScannedNote <=> (ext = PdfExt /\ few)
        /\ r.notes \in {UnsupportedNote, ScannedNote, ""}

\* a batch with a PDF that could not be read, noted as scanned, and a PDF
\* of 200 characters or more, without a note
C4_Witness ==
  \E j, k \in DOMAIN results :
    /\ uploaded_files[j].format = "corrupt"
    /\ results[j].notes = ScannedNote
    /\ Ext(uploaded_files[k].name) = PdfExt
    /\ NonSpaceCount(TextOf(k)) >= ScanThreshold
    /\ results[k].notes = ""

\* the records so far are those of the files read so far, in their order
OneRecordPerInput ==
  /\ idx = Len(results)
  /\ idx <= Len(uploaded_files)
  /\ \A k \in DOMAIN results : results[k].filename = uploaded_files[k].name

C6_BareHeaderSeedsEmpty ==
  \A k \in DOMAIN results : Supported(k) =>
    LET lines == LinesOf(k)
        i == AbstractHeaderIndex(lines)
        after == Strip(Join(Accumulate(lines, i + 1), <<" ">>))
    IN  i # 0 /\ ABSTRACT_HEAD_PAT(lines[i])
          => results[k].abstract = Strip(BeforeKeywordsMarker(after))

\* the line starts with "1." or "1 ", or with "I." or "I "
StartsWithSectionNumber(line) ==
  LET p == SkipSpaces(line, 1)
  IN  /\ p + 1 <= Len(line)
      /\ line[p] \in {"1", "I"}
      /\ line[p + 1] \in {".", " "}

(* C7: a line that starts with "1.", "1 ", "I." or "I " ends accumulation  *)
(* whatever follows the marker: after a header, neither that line nor a    *)
(* later one is in the abstract or the keywords.  The code does not stop   *)
(* at "1. Introduction".                                                   *)
C7_NumberedMarkerStops ==
  \A k \in DOMAIN results : Supported(k) =>
    LET lines == LinesOf(k)
    IN  \A n \in DOMAIN lines : StartsWithSectionNumber(lines[n]) =>
          /\ AbstractHeaderIn(lines, n - 1)
               => results[k].abstract = find_abstract(FirstLines(lines, n - 1))
          /\ KeywordsHeaderIn(lines, n - 1)
               => results[k].keywords = find_keywords(FirstLines(lines, n - 1))

\* the acceptance rule as C8 states it
AcceptedIfDistinct(ln) ==
  LET m == NAME_PAT(ln)
  IN  \/ Cardinality({m[i] : i \in DOMAIN m}) >= 2
      \/ /\ Len(m) = 1
         /\ (Contains(ln, <<",">>) \/ Contains(Lower(ln), <<" ", "a", "n", "d", " ">>))

(* C8: the author line is the first of the first 8 filtered lines with at  *)
(* least two distinct name matches, or with exactly one match and a comma  *)
(* or " and "; the authors are the names of that line, and empty without   *)
(* one.  The code counts matches, not distinct names, and accepts          *)
(* "Ann Lee; Ann Lee".                                                     *)
C8_AcceptsDistinctNamesOnly ==
  \A k \in DOMAIN results : Supported(k) =>
    LET filtered == FilteredLines(TextOf(k))
        head == SubSeq(filtered, 1, IF Len(filtered) < 8 THEN Len(filtered) ELSE 8)
        hits == {j \in DOMAIN head : AcceptedIfDistinct(head[j])}
        first == CHOOSE j \in hits : \A r \in hits : j <= r
    IN  results[k].authors =
          IF hits = {} THEN <<>>
          ELSE Join(Dedup(NAME_PAT(head[first]), {}), <<",", " ">>)

\* the line holds an affiliation keyword as C9 lists them, in any letter
\* case: one of the words, or a word built on the stem "laborator"
HasAffiliationKeyword(line) ==
  \E p \in DOMAIN line :
    /\ WordBoundary(line, p)
    /\ \E w \in DOMAIN AffiliationWords :
         /\ MatchLit(line, p, AffiliationWords[w])
         /\ \/ WordBoundary(line, p + Len(AffiliationWords[w]))
            \/ AffiliationWords[w] = <<"l", "a", "b", "o", "r", "a", "t", "o", "r">>

(* C9: a line with an affiliation keyword is discarded before name         *)
(* matching: the authors are those of the text with every such line        *)
(* emptied.  The code keeps a line with "Laboratory" and returns           *)
(* "Bell Laboratory, Ann Lee".                                             *)
C9_AffiliationLinesDiscarded ==
  \A k \in DOMAIN results : Supported(k) =>
    LET lines == LinesOf(k)
        emptied == [n \in DOMAIN lines |->
                      IF HasAffiliationKeyword(lines[n]) THEN <<>> ELSE lines[n]]
    IN  results[k].authors = find_authors(Join(emptied, <<"\n">>))

(* C10: the keywords that find_keywords returns hold no term twice.  The   *)
(* code returns "nets, graphs, nets" for "Keywords: nets; graphs, nets.".  *)
C10_KeywordsDistinct ==
  \A k \in DOMAIN results : NoRepeat(Entries(results[k].keywords))

====
